---- MODULE Spec2Model ----
(***************************************************************************)
(* Model of sql/gis/rtree_support.cc: the geometric functions that storage *)
(* engines call on minimum bounding rectangles (MBRs) of an R-tree index.  *)
(*                                                                         *)
(* A C++ double is modelled as an exact rational n/d with |n/d| <= FMax,   *)
(* or one of +Infinity, -Infinity, NaN.  An arithmetic result whose        *)
(* magnitude exceeds FMax overflows to an infinity, Infinity - Infinity    *)
(* and Infinity * 0 give NaN, and every ordered comparison with NaN is     *)
(* false.  Rounding of the mantissa and signed zeros are not modelled.     *)
(***************************************************************************)
EXTENDS Integers, Sequences, FiniteSets, TLC

\* Largest finite value of the modelled double (stands for DBL_MAX).
FMax == 250

\* Rectangle coordinates of the predicate calls range over 0..MaxCoord.
MaxCoord == 2

\* Rectangle coordinates of the merge and area calls range over
\* 0..MaxAreaCoord and the two extreme finite values -FMax and FMax.
MaxAreaCoord == 1

\* Raw keys hold at most MaxDims (min,max) pairs.
MaxDims == 2

(***************************************************************************)
(* double                                                                  *)
(***************************************************************************)
Abs(x) == IF x < 0 THEN -x ELSE x

RECURSIVE GCD(_, _)
GCD(x, y) == IF y = 0 THEN x ELSE GCD(y, x % y)

LCM(x, y) == (x \div GCD(x, y)) * y

PInf == [k |-> "pinf", n |-> 0, d |-> 1]
NInf == [k |-> "ninf", n |-> 0, d |-> 1]
NaN == [k |-> "nan", n |-> 0, d |-> 1]

\* The double nearest to n/d (d > 0): n/d in lowest terms when it is in
\* range, an infinity of the same sign when it is not.
MkDouble(n, d) ==
  LET g == GCD(Abs(n), d)
      nn == IF n < 0 THEN -(Abs(n) \div g) ELSE n \div g
      dd == d \div g
  IN IF \/ Abs(nn) \div dd > FMax
        \/ (Abs(nn) \div dd = FMax /\ Abs(nn) % dd > 0)
     THEN (IF nn < 0 THEN NInf ELSE PInf)
     ELSE [k |-> "fin", n |-> nn, d |-> dd]

D(i) == MkDouble(i, 1)

\* std::numeric_limits<double>::max() and lowest()
DblMax == [k |-> "fin", n |-> FMax, d |-> 1]
DblLowest == [k |-> "fin", n |-> -FMax, d |-> 1]

isfinite(x) == x.k = "fin"
isnan(x) == x.k = "nan"

DNeg(x) ==
  CASE x.k = "fin" -> [k |-> "fin", n |-> -x.n, d |-> x.d]
    [] x.k = "pinf" -> NInf
    [] x.k = "ninf" -> PInf
    [] OTHER -> NaN

DAdd(x, y) ==
  CASE x.k = "nan" \/ y.k = "nan" -> NaN
    [] x.k = "fin" /\ y.k = "fin" ->
         LET l == LCM(x.d, y.d)
         IN MkDouble(x.n * (l \div x.d) + y.n * (l \div y.d), l)
    [] x.k = "fin" -> y
    [] y.k = "fin" -> x
    [] x.k = y.k -> x
    [] OTHER -> NaN

DSub(x, y) == DAdd(x, DNeg(y))

Sgn(x) ==
  CASE x.k = "pinf" -> 1
    [] x.k = "ninf" -> -1
    [] x.n > 0 -> 1
    [] x.n < 0 -> -1
    [] OTHER -> 0

DMul(x, y) ==
  CASE x.k = "nan" \/ y.k = "nan" -> NaN
    [] x.k = "fin" /\ y.k = "fin" ->
         LET g1 == GCD(Abs(x.n), y.d)
             g2 == GCD(Abs(y.n), x.d)
         IN MkDouble((x.n \div g1) * (y.n \div g2),
                     (x.d \div g2) * (y.d \div g1))
    [] Sgn(x) * Sgn(y) = 0 -> NaN
    [] Sgn(x) * Sgn(y) > 0 -> PInf
    [] OTHER -> NInf

DDiv(x, y) ==
  CASE x.k = "nan" \/ y.k = "nan" -> NaN
    [] x.k = "fin" /\ y.k = "fin" ->
         IF y.n = 0
         THEN (IF x.n = 0 THEN NaN ELSE IF x.n > 0 THEN PInf ELSE NInf)
         ELSE DMul(x, IF y.n > 0 THEN [k |-> "fin", n |-> y.d, d |-> y.n]
                                 ELSE [k |-> "fin", n |-> -y.d, d |-> -y.n])
    [] x.k = "fin" -> D(0)
    [] y.k = "fin" -> IF Sgn(x) * (IF y.n < 0 THEN -1 ELSE 1) > 0
                      THEN PInf ELSE NInf
    [] OTHER -> NaN

\* x == y, x < y, x <= y, x > y, x >= y on doubles
DEq(x, y) == x.k # "nan" /\ y.k # "nan" /\ x = y

DLt(x, y) ==
  CASE x.k = "nan" \/ y.k = "nan" -> FALSE
    [] x.k = "fin" /\ y.k = "fin" ->
         LET l == LCM(x.d, y.d)
         IN x.n * (l \div x.d) < y.n * (l \div y.d)
    [] x.k = "ninf" -> y.k # "ninf"
    [] y.k = "pinf" -> x.k # "pinf"
    [] OTHER -> FALSE

DLe(x, y) == DLt(x, y) \/ DEq(x, y)
DGt(x, y) == DLt(y, x)
DGe(x, y) == DLe(y, x)

\* std::min(x, y) is (y < x) ? y : x and std::max(x, y) is (x < y) ? y : x
StdMin(x, y) == IF DLt(y, x) THEN y ELSE x
StdMax(x, y) == IF DLt(x, y) THEN y ELSE x

(***************************************************************************)
(* Reference systems and boxes                                             *)
(***************************************************************************)
\* srs == nullptr, a Cartesian SRS, a geographic SRS
SrsKinds == {"none", "cartesian", "geographic"}

is_cartesian(srs) == srs = "cartesian"
is_geographic(srs) == srs = "geographic"

\* The angular unit of the geographic SRS, in radians per unit.
AngularUnit == MkDouble(1, 2)

to_radians(srs, x) == DMul(x, AngularUnit)
from_radians(srs, x) == DDiv(x, AngularUnit)

semi_major_axis(srs) == IF srs = "none" THEN D(0) ELSE D(2)
semi_minor_axis(srs) == IF srs = "none" THEN D(0) ELSE D(2)

\* gis::Cartesian_point / gis::Geographic_point and the boxes made of two
\* of them
Point(x, y) == [x |-> x, y |-> y]
Box(minc, maxc) == [min_corner |-> minc, max_corner |-> maxc]

\* rtr_mbr_t
Mbr(xmin, xmax, ymin, ymax) ==
  [xmin |-> xmin, xmax |-> xmax, ymin |-> ymin, ymax |-> ymax]

\* gis::Covered_by(semi_major, semi_minor)(g1, g2) on two boxes of one
\* coordinate model: on every axis the interval of g1 lies in the interval
\* of g2, bounds included.
Covered_by(major, minor, g1, g2) ==
  /\ DGe(g1.min_corner.x, g2.min_corner.x)
  /\ DLe(g1.max_corner.x, g2.max_corner.x)
  /\ DGe(g1.min_corner.y, g2.min_corner.y)
  /\ DLe(g1.max_corner.y, g2.max_corner.y)

\* gis::Equals(semi_major, semi_minor)(g1, g2) on two boxes of one
\* coordinate model: the two boxes have the same corners.
Equals(major, minor, g1, g2) ==
  /\ DEq(g1.min_corner.x, g2.min_corner.x)
  /\ DEq(g1.min_corner.y, g2.min_corner.y)
  /\ DEq(g1.max_corner.x, g2.max_corner.x)
  /\ DEq(g1.max_corner.y, g2.max_corner.y)

\* The box of an rtr_mbr_t, as each predicate builds it: the coordinates
\* as they are under no or a Cartesian SRS, in radians under a geographic.
MbrBox(srs, xmin, ymin, xmax, ymax) ==
  IF srs = "none" \/ is_cartesian(srs)
  THEN Box(Point(xmin, ymin), Point(xmax, ymax))
  ELSE Box(Point(to_radians(srs, xmin), to_radians(srs, ymin)),
           Point(to_radians(srs, xmax), to_radians(srs, ymax)))

\* What a call leaves behind: it returned a value, or a DBUG_ASSERT of a
\* debug build stopped the server inside it.
Returned(v) == [outcome |-> "returned", value |-> v]
Aborted(v) == [outcome |-> "aborted", value |-> v]

\* DBUG_ASSERT(a->xmin <= a->xmax && a->ymin <= a->ymax)
ValidMbr(m) == DLe(m.xmin, m.xmax) /\ DLe(m.ymin, m.ymax)

(***************************************************************************)
(* Predicates.  dbug: the build has DBUG_ASSERT enabled.  fault: the       *)
(* geometry library throws inside the try block.                           *)
(***************************************************************************)
\* mbr_contain_cmp with the arguments of covered_by exchanged
mbr_contain_cmp_swapped(srs, a, b, dbug, fault) ==
  IF dbug /\ ~(ValidMbr(a) /\ ValidMbr(b)) THEN Aborted(FALSE)
  ELSE IF fault THEN (IF dbug THEN Aborted(FALSE) ELSE Returned(FALSE))
  ELSE LET a_box == MbrBox(srs, a.xmin, a.ymin, a.xmax, a.ymax)
           b_box == MbrBox(srs, b.xmin, b.ymin, b.xmax, b.ymax)
       IN Returned(Covered_by(semi_major_axis(srs), semi_minor_axis(srs),
                              a_box, b_box))

mbr_contain_cmp(srs, a, b, dbug, fault) ==
  IF dbug /\ ~(ValidMbr(a) /\ ValidMbr(b)) THEN Aborted(FALSE)
  ELSE IF fault THEN (IF dbug THEN Aborted(FALSE) ELSE Returned(FALSE))
  ELSE LET a_box == MbrBox(srs, a.xmin, a.ymin, a.xmax, a.ymax)
           b_box == MbrBox(srs, b.xmin, b.ymin, b.xmax, b.ymax)
       IN Returned(Covered_by(semi_major_axis(srs), semi_minor_axis(srs),
                              b_box, a_box))

\* mbr_equal_cmp calling the covered-by functor instead of the equals one
mbr_equal_cmp_covered(srs, a, b, dbug, fault) ==
  IF dbug /\ ~(ValidMbr(a) /\ ValidMbr(b)) THEN Aborted(FALSE)
  ELSE IF fault THEN (IF dbug THEN Aborted(FALSE) ELSE Returned(FALSE))
  ELSE LET a_box == MbrBox(srs, a.xmin, a.ymin, a.xmax, a.ymax)
           b_box == MbrBox(srs, b.xmin, b.ymin, b.xmax, b.ymax)
       IN Returned(Covered_by(semi_major_axis(srs), semi_minor_axis(srs),
                              a_box, b_box))

mbr_equal_cmp(srs, a, b, dbug, fault) ==
  IF dbug /\ ~(ValidMbr(a) /\ ValidMbr(b)) THEN Aborted(FALSE)
  ELSE IF fault THEN (IF dbug THEN Aborted(FALSE) ELSE Returned(FALSE))
  ELSE LET a_box == MbrBox(srs, a.xmin, a.ymin, a.xmax, a.ymax)
           b_box == MbrBox(srs, b.xmin, b.ymin, b.xmax, b.ymax)
       IN Returned(Equals(semi_major_axis(srs), semi_minor_axis(srs),
                          a_box, b_box))

\* The asserted condition with "and" in place of "or": a test of overlap
IntersectAssertion_overlap(a, b) ==
  /\ (DLe(b.xmin, a.xmax) /\ DGe(b.xmax, a.xmin))
  /\ (DLe(b.ymin, a.ymax) /\ DGe(b.ymax, a.ymin))

\* The condition mbr_intersect_cmp asserts: the old return value.
IntersectAssertion(a, b) ==
  /\ (DLe(b.xmin, a.xmax) \/ DGe(b.xmax, a.xmin))
  /\ (DLe(b.ymin, a.ymax) \/ DGe(b.ymax, a.ymin))

\* mbr_intersect_cmp returning the value it asserts
mbr_intersect_cmp_computed(srs, a, b, dbug) ==
  Returned(IntersectAssertion(a, b))

mbr_intersect_cmp(srs, a, b, dbug) ==
  IF dbug /\ ~IntersectAssertion(a, b) THEN Aborted(FALSE)
  ELSE Returned(TRUE)

mbr_disjoint_cmp(srs, a, b, dbug) ==
  LET r == mbr_intersect_cmp(srs, a, b, dbug)
  IN IF r.outcome = "aborted" THEN r ELSE Returned(~r.value)

\* mbr_within_cmp inverting also when a and b are the same
mbr_within_cmp_noexempt(srs, a, b, dbug, fault) ==
  IF fault THEN (IF dbug THEN Aborted(FALSE) ELSE Returned(FALSE))
  ELSE LET invert == DGt(a.xmin, a.xmax) /\ DGt(a.ymin, a.ymax)
           a_box == MbrBox(srs, StdMin(a.xmin, a.xmax),
                           StdMin(a.ymin, a.ymax),
                           StdMax(a.xmin, a.xmax),
                           StdMax(a.ymin, a.ymax))
           b_box == MbrBox(srs, StdMin(b.xmin, b.xmax),
                           StdMin(b.ymin, b.ymax),
                           StdMax(b.xmin, b.xmax),
                           StdMax(b.ymin, b.ymax))
           result == Covered_by(semi_major_axis(srs), semi_minor_axis(srs),
                                a_box, b_box)
       IN Returned(IF invert THEN ~result ELSE result)

\* mbr_within_cmp never inverting
mbr_within_cmp_noinvert(srs, a, b, dbug, fault) ==
  IF fault THEN (IF dbug THEN Aborted(FALSE) ELSE Returned(FALSE))
  ELSE Returned(Covered_by(semi_major_axis(srs), semi_minor_axis(srs),
                           MbrBox(srs, StdMin(a.xmin, a.xmax),
                                  StdMin(a.ymin, a.ymax),
                                  StdMax(a.xmin, a.xmax),
                                  StdMax(a.ymin, a.ymax)),
                           MbrBox(srs, StdMin(b.xmin, b.xmax),
                                  StdMin(b.ymin, b.ymax),
                                  StdMax(b.xmin, b.xmax),
                                  StdMax(b.ymin, b.ymax))))

\* mbr_within_cmp inverting its result after the catch block
mbr_within_cmp_invertfault(srs, a, b, dbug, fault) ==
  LET invert0 == /\ DGt(a.xmin, a.xmax)
                 /\ DGt(a.ymin, a.ymax)
                 /\ ~(a = b)
  IN
  IF fault THEN (IF dbug THEN Aborted(FALSE) ELSE Returned(invert0))
  ELSE LET invert == /\ DGt(a.xmin, a.xmax)
                     /\ DGt(a.ymin, a.ymax)
                     /\ ~(/\ DEq(a.xmin, b.xmin)
                          /\ DEq(a.ymin, b.ymin)
                          /\ DEq(a.xmax, b.xmax)
                          /\ DEq(a.ymax, b.ymax))
           a_xmin == StdMin(a.xmin, a.xmax)
           a_ymin == StdMin(a.ymin, a.ymax)
           a_xmax == StdMax(a.xmin, a.xmax)
           a_ymax == StdMax(a.ymin, a.ymax)
           b_xmin == StdMin(b.xmin, b.xmax)
           b_ymin == StdMin(b.ymin, b.ymax)
           b_xmax == StdMax(b.xmin, b.xmax)
           b_ymax == StdMax(b.ymin, b.ymax)
           a_box == MbrBox(srs, a_xmin, a_ymin, a_xmax, a_ymax)
           b_box == MbrBox(srs, b_xmin, b_ymin, b_xmax, b_ymax)
           result == Covered_by(semi_major_axis(srs), semi_minor_axis(srs),
                                a_box, b_box)
       IN Returned(IF invert THEN ~result ELSE result)

\* mbr_within_cmp with the arguments of covered_by exchanged
mbr_within_cmp_swapped(srs, a, b, dbug, fault) ==
  IF fault THEN (IF dbug THEN Aborted(FALSE) ELSE Returned(FALSE))
  ELSE LET invert == /\ DGt(a.xmin, a.xmax)
                     /\ DGt(a.ymin, a.ymax)
                     /\ ~(/\ DEq(a.xmin, b.xmin)
                          /\ DEq(a.ymin, b.ymin)
                          /\ DEq(a.xmax, b.xmax)
                          /\ DEq(a.ymax, b.ymax))
           a_xmin == StdMin(a.xmin, a.xmax)
           a_ymin == StdMin(a.ymin, a.ymax)
           a_xmax == StdMax(a.xmin, a.xmax)
           a_ymax == StdMax(a.ymin, a.ymax)
           b_xmin == StdMin(b.xmin, b.xmax)
           b_ymin == StdMin(b.ymin, b.ymax)
           b_xmax == StdMax(b.xmin, b.xmax)
           b_ymax == StdMax(b.ymin, b.ymax)
           a_box == MbrBox(srs, a_xmin, a_ymin, a_xmax, a_ymax)
           b_box == MbrBox(srs, b_xmin, b_ymin, b_xmax, b_ymax)
           result == Covered_by(semi_major_axis(srs), semi_minor_axis(srs),
                                b_box, a_box)
       IN Returned(IF invert THEN ~result ELSE result)

mbr_within_cmp(srs, a, b, dbug, fault) ==
  IF fault THEN (IF dbug THEN Aborted(FALSE) ELSE Returned(FALSE))
  ELSE LET invert == /\ DGt(a.xmin, a.xmax)
                     /\ DGt(a.ymin, a.ymax)
                     /\ ~(/\ DEq(a.xmin, b.xmin)
                          /\ DEq(a.ymin, b.ymin)
                          /\ DEq(a.xmax, b.xmax)
                          /\ DEq(a.ymax, b.ymax))
           a_xmin == StdMin(a.xmin, a.xmax)
           a_ymin == StdMin(a.ymin, a.ymax)
           a_xmax == StdMax(a.xmin, a.xmax)
           a_ymax == StdMax(a.ymin, a.ymax)
           b_xmin == StdMin(b.xmin, b.xmax)
           b_ymin == StdMin(b.ymin, b.ymax)
           b_xmax == StdMax(b.xmin, b.xmax)
           b_ymax == StdMax(b.ymin, b.ymax)
           a_box == MbrBox(srs, a_xmin, a_ymin, a_xmax, a_ymax)
           b_box == MbrBox(srs, b_xmin, b_ymin, b_xmax, b_ymax)
           result == Covered_by(semi_major_axis(srs), semi_minor_axis(srs),
                                a_box, b_box)
       IN Returned(IF invert THEN ~result ELSE result)

(***************************************************************************)
(* Merge and area.  A double[4] holds xmin, xmax, ymin, ymax at indexes    *)
(* 0..3 of the code, 1..4 here.  Every call passes n_dim == 2.             *)
(***************************************************************************)
\* boost::geometry::expand(box, c) for one corner c of the other box: a
\* coordinate of c below the min corner lowers it, one above the max corner
\* raises it.
ExpandCorner(box, c) ==
  Box(Point(IF DLt(c.x, box.min_corner.x) THEN c.x ELSE box.min_corner.x,
            IF DLt(c.y, box.min_corner.y) THEN c.y ELSE box.min_corner.y),
      Point(IF DGt(c.x, box.max_corner.x) THEN c.x ELSE box.max_corner.x,
            IF DGt(c.y, box.max_corner.y) THEN c.y ELSE box.max_corner.y))

\* boost::geometry::expand(a_box, b_box): a_box grown by the min corner and
\* then by the max corner of b_box.
bg_expand(a_box, b_box) ==
  ExpandCorner(ExpandCorner(a_box, b_box.min_corner), b_box.max_corner)

\* boost::geometry::area of a Cartesian box
bg_area(box) ==
  DMul(DSub(box.max_corner.x, box.min_corner.x),
       DSub(box.max_corner.y, box.min_corner.y))

\* boost::geometry::area of a geographic box (corners in radians) on the
\* spheroid with the given axes
bg_area_geographic(box, major, minor) ==
  DMul(DMul(major, minor), bg_area(box))

\* The box of a double[4]
ArrBox(srs, arr) ==
  IF srs = "none" \/ is_cartesian(srs)
  THEN Box(Point(arr[1], arr[3]), Point(arr[2], arr[4]))
  ELSE Box(Point(to_radians(srs, arr[1]), to_radians(srs, arr[3])),
           Point(to_radians(srs, arr[2]), to_radians(srs, arr[4])))

\* mbr_join writing the corners back as xmin, ymin, xmax, ymax
mbr_join_cornerorder(srs, arr_a, arr_b, dbug, fault) ==
  IF fault THEN (IF dbug THEN Aborted(arr_a) ELSE Returned(arr_a))
  ELSE LET a_box == bg_expand(ArrBox(srs, arr_a), ArrBox(srs, arr_b))
       IN IF srs = "none" \/ is_cartesian(srs)
          THEN Returned(<<a_box.min_corner.x, a_box.min_corner.y,
                          a_box.max_corner.x, a_box.max_corner.y>>)
          ELSE Returned(<<from_radians(srs, a_box.min_corner.x),
                          from_radians(srs, a_box.min_corner.y),
                          from_radians(srs, a_box.max_corner.x),
                          from_radians(srs, a_box.max_corner.y)>>)

\* mbr_join not writing the max corner back
mbr_join_nomax(srs, arr_a, arr_b, dbug, fault) ==
  IF fault THEN (IF dbug THEN Aborted(arr_a) ELSE Returned(arr_a))
  ELSE LET a_box == bg_expand(ArrBox(srs, arr_a), ArrBox(srs, arr_b))
       IN IF srs = "none" \/ is_cartesian(srs)
          THEN Returned(<<a_box.min_corner.x, arr_a[2],
                          a_box.min_corner.y, arr_a[4]>>)
          ELSE Returned(<<from_radians(srs, a_box.min_corner.x), arr_a[2],
                          from_radians(srs, a_box.min_corner.y), arr_a[4]>>)

\* The value is the content of a[0..3] when the call ends.
mbr_join(srs, arr_a, arr_b, dbug, fault) ==
  IF fault THEN (IF dbug THEN Aborted(arr_a) ELSE Returned(arr_a))
  ELSE LET a_box == bg_expand(ArrBox(srs, arr_a), ArrBox(srs, arr_b))
       IN IF srs = "none" \/ is_cartesian(srs)
          THEN Returned(<<a_box.min_corner.x, a_box.max_corner.x,
                          a_box.min_corner.y, a_box.max_corner.y>>)
          ELSE Returned(<<from_radians(srs, a_box.min_corner.x),
                          from_radians(srs, a_box.max_corner.x),
                          from_radians(srs, a_box.min_corner.y),
                          from_radians(srs, a_box.max_corner.y)>>)

\* mbr_join_area returning the area as computed
mbr_join_area_raw(srs, arr_a, arr_b, dbug, fault) ==
  IF fault THEN (IF dbug THEN Aborted(D(0)) ELSE Returned(D(0)))
  ELSE LET a_box == bg_expand(ArrBox(srs, arr_a), ArrBox(srs, arr_b))
       IN Returned(IF srs = "none" \/ is_cartesian(srs)
                   THEN bg_area(a_box)
                   ELSE bg_area_geographic(a_box, semi_major_axis(srs),
                                           semi_minor_axis(srs)))

\* mbr_join_area giving the largest double when the computation throws
mbr_join_area_faultmax(srs, arr_a, arr_b, dbug, fault) ==
  IF fault THEN (IF dbug THEN Aborted(DblMax) ELSE Returned(DblMax))
  ELSE LET a_box == bg_expand(ArrBox(srs, arr_a), ArrBox(srs, arr_b))
           area == IF srs = "none" \/ is_cartesian(srs)
                   THEN bg_area(a_box)
                   ELSE bg_area_geographic(a_box, semi_major_axis(srs),
                                           semi_minor_axis(srs))
       IN Returned(IF ~isfinite(area) THEN DblMax ELSE area)

mbr_join_area(srs, arr_a, arr_b, dbug, fault) ==
  IF fault THEN (IF dbug THEN Aborted(D(0)) ELSE Returned(D(0)))
  ELSE LET a_box == bg_expand(ArrBox(srs, arr_a), ArrBox(srs, arr_b))
           area == IF srs = "none" \/ is_cartesian(srs)
                   THEN bg_area(a_box)
                   ELSE bg_area_geographic(a_box, semi_major_axis(srs),
                                           semi_minor_axis(srs))
       IN Returned(IF ~isfinite(area) THEN DblMax ELSE area)

\* compute_area reading the array as xmin, ymin, xmax, ymax
compute_area_cornerorder(srs, arr_a, dbug, fault) ==
  IF fault THEN (IF dbug THEN Aborted(D(0)) ELSE Returned(D(0)))
  ELSE LET a_box == ArrBox(srs, <<arr_a[1], arr_a[3], arr_a[2], arr_a[4]>>)
       IN Returned(IF srs = "none" \/ is_cartesian(srs)
                   THEN bg_area(a_box)
                   ELSE bg_area_geographic(a_box, semi_major_axis(srs),
                                           semi_minor_axis(srs)))

compute_area(srs, arr_a, dbug, fault) ==
  IF fault THEN (IF dbug THEN Aborted(D(0)) ELSE Returned(D(0)))
  ELSE LET a_box == ArrBox(srs, arr_a)
       IN Returned(IF srs = "none" \/ is_cartesian(srs)
                   THEN bg_area(a_box)
                   ELSE bg_area_geographic(a_box, semi_major_axis(srs),
                                           semi_minor_axis(srs)))

(***************************************************************************)
(* Raw keys.  A key of mbr_len bytes is the sequence of the doubles it     *)
(* holds: min and max of dimension i at positions 2i+1 and 2i+2.           *)
(***************************************************************************)
\* double line_mbr_weights = 0.001
line_mbr_weights == MkDouble(1, 1000)

\* keyseg_len = 2 * sizeof(double)
keyseg_len == 16

\* The loop of rtree_area_increase multiplying data_round on every pass,
\* whether the two products are equal or not
RECURSIVE AreaIncreaseLoop_nocompare(_, _, _, _, _, _, _)
AreaIncreaseLoop_nocompare(mbr_a, mbr_b, key_len, pos, a_area, loc_ab_area, data_round) ==
  IF key_len > 0
  THEN LET amin == mbr_a[pos + 1]
           bmin == mbr_b[pos + 1]
           amax == mbr_a[pos + 2]
           bmax == mbr_b[pos + 2]
           area1 == DSub(amax, amin)
           a_area1 == IF DEq(area1, D(0))
                      THEN DMul(a_area, line_mbr_weights)
                      ELSE DMul(a_area, area1)
           area == DSub(StdMax(amax, bmax), StdMin(amin, bmin))
           loc_ab_area1 == IF DEq(area, D(0))
                           THEN DMul(loc_ab_area, line_mbr_weights)
                           ELSE DMul(loc_ab_area, area)
           data_round1 ==
             IF DLt(bmin, amin) \/ DGt(bmax, amax)
             THEN DMul(data_round,
                       DAdd(DSub(StdMax(amax, bmax), amax),
                            DSub(amin, StdMin(amin, bmin))))
             ELSE DMul(data_round, area)
       IN AreaIncreaseLoop_nocompare(mbr_a, mbr_b, key_len - keyseg_len,
                                     pos + 2, a_area1, loc_ab_area1,
                                     data_round1)
  ELSE [a_area |-> a_area, loc_ab_area |-> loc_ab_area,
        data_round |-> data_round, pos |-> pos]

\* One pass of the loop of rtree_area_increase per (min,max) pair; pos is
\* the number of doubles mbr_a and mbr_b have been advanced by.
RECURSIVE AreaIncreaseLoop(_, _, _, _, _, _, _)
AreaIncreaseLoop(mbr_a, mbr_b, key_len, pos, a_area, loc_ab_area, data_round) ==
  IF key_len > 0
  THEN LET amin == mbr_a[pos + 1]
           bmin == mbr_b[pos + 1]
           amax == mbr_a[pos + 2]
           bmax == mbr_b[pos + 2]
           area1 == DSub(amax, amin)
           a_area1 == IF DEq(area1, D(0))
                      THEN DMul(a_area, line_mbr_weights)
                      ELSE DMul(a_area, area1)
           area == DSub(StdMax(amax, bmax), StdMin(amin, bmin))
           loc_ab_area1 == IF DEq(area, D(0))
                           THEN DMul(loc_ab_area, line_mbr_weights)
                           ELSE DMul(loc_ab_area, area)
           data_round1 ==
             IF DEq(loc_ab_area1, a_area1)
             THEN IF DLt(bmin, amin) \/ DGt(bmax, amax)
                  THEN DMul(data_round,
                            DAdd(DSub(StdMax(amax, bmax), amax),
                                 DSub(amin, StdMin(amin, bmin))))
                  ELSE DMul(data_round, area)
             ELSE data_round
       IN AreaIncreaseLoop(mbr_a, mbr_b, key_len - keyseg_len, pos + 2,
                           a_area1, loc_ab_area1, data_round1)
  ELSE [a_area |-> a_area, loc_ab_area |-> loc_ab_area,
        data_round |-> data_round, pos |-> pos]

\* rtree_area_increase without the compensation of lost differences
rtree_area_increase_plain(mbr_a, mbr_b, len) ==
  LET l == AreaIncreaseLoop(mbr_a, mbr_b, len, 0, D(1), D(1), D(1))
  IN [value |-> DSub(l.loc_ab_area, l.a_area), ab_area |-> l.loc_ab_area,
      pos |-> l.pos]

\* rtree_area_increase returning data_round whenever the products are
\* equal, without the test data_round != 1.0
rtree_area_increase_notest(mbr_a, mbr_b, len) ==
  LET l == AreaIncreaseLoop(mbr_a, mbr_b, len, 0, D(1), D(1), D(1))
  IN [value |-> IF DEq(l.loc_ab_area, l.a_area)
                THEN l.data_round
                ELSE DSub(l.loc_ab_area, l.a_area),
      ab_area |-> l.loc_ab_area,
      pos |-> l.pos]

\* value: the double returned; ab_area: what is stored in *ab_area; pos:
\* the number of doubles read from each key.
rtree_area_increase(mbr_a, mbr_b, len) ==
  LET l == AreaIncreaseLoop(mbr_a, mbr_b, len, 0, D(1), D(1), D(1))
  IN [value |-> IF DEq(l.loc_ab_area, l.a_area) /\ ~DEq(l.data_round, D(1))
                THEN l.data_round
                ELSE DSub(l.loc_ab_area, l.a_area),
      ab_area |-> l.loc_ab_area,
      pos |-> l.pos]

\* The loop of rtree_area_overlapping without the return of 0 on a
\* dimension where the keys are disjoint
RECURSIVE AreaOverlappingLoop_noreturn(_, _, _, _, _)
AreaOverlappingLoop_noreturn(mbr_a, mbr_b, key_len, pos, area) ==
  IF key_len > 0
  THEN LET amin == StdMax(mbr_a[pos + 1], mbr_b[pos + 1])
           amax == StdMin(mbr_a[pos + 2], mbr_b[pos + 2])
       IN AreaOverlappingLoop_noreturn(mbr_a, mbr_b, key_len - keyseg_len,
                                       pos + 2, DMul(area, DSub(amax, amin)))
  ELSE [area |-> area, pos |-> pos]

\* One pass of the loop of rtree_area_overlapping per (min,max) pair; the
\* result holds the area to return and the number of doubles read from
\* each key.
RECURSIVE AreaOverlappingLoop(_, _, _, _, _)
AreaOverlappingLoop(mbr_a, mbr_b, key_len, pos, area) ==
  IF key_len > 0
  THEN LET amin == StdMax(mbr_a[pos + 1], mbr_b[pos + 1])
           amax == StdMin(mbr_a[pos + 2], mbr_b[pos + 2])
       IN IF DGt(amin, amax)
          THEN [area |-> D(0), pos |-> pos + 2]
          ELSE AreaOverlappingLoop(mbr_a, mbr_b, key_len - keyseg_len,
                                   pos + 2, DMul(area, DSub(amax, amin)))
  ELSE [area |-> area, pos |-> pos]

\* value: the double returned; pos: the number of doubles read from each
\* key.
rtree_area_overlapping(mbr_a, mbr_b, len) ==
  LET l == AreaOverlappingLoop(mbr_a, mbr_b, len, 0, D(1))
  IN [value |-> l.area, pos |-> l.pos]

(***************************************************************************)
(* Extraction of the MBR of a stored geometry.  A store is the SRID of its *)
(* first four bytes and what the WKB after them decodes to: nothing        *)
(* (malformed), an empty geometry, or a geometry whose envelope is env     *)
(* (xmin, xmax, ymin, ymax in the units of the SRS).                       *)
(***************************************************************************)
\* srs->id()
SrsId(srs) == IF srs = "cartesian" THEN 1 ELSE IF srs = "geographic" THEN 2 ELSE 0

\* gis::parse_wkb: the geometry of the store, "null" when the WKB does not
\* parse.
parse_wkb(srs, st) == IF st.kind = "malformed" THEN "null" ELSE st.kind

\* gis::box_envelope: the envelope of the geometry in the coordinate model
\* of the SRS, all NaN for an empty geometry.
box_envelope(srs, st) ==
  IF st.kind = "empty"
  THEN Box(Point(NaN, NaN), Point(NaN, NaN))
  ELSE MbrBox(srs, st.env[1], st.env[3], st.env[2], st.env[4])

\* mbr[0..3] as lines 320-335 assign them from the envelope
StoreMbr(srs, box) ==
  IF srs = "none" \/ is_cartesian(srs)
  THEN <<box.min_corner.x, box.max_corner.x,
         box.min_corner.y, box.max_corner.y>>
  ELSE <<from_radians(srs, box.min_corner.x),
         from_radians(srs, box.max_corner.x),
         from_radians(srs, box.min_corner.y),
         from_radians(srs, box.max_corner.y)>>

\* Lines 341-356 without the replacement of an empty envelope
StoreResult_keepnan(mbr1, srid1, dbug) ==
  [outcome |-> IF dbug /\ ~(DLe(mbr1[1], mbr1[2]) /\ DLe(mbr1[3], mbr1[4]))
               THEN "aborted" ELSE "returned",
   value |-> 0, mbr |-> mbr1, srid |-> srid1]

\* Lines 341-356: the replacement of an empty envelope by the full domain,
\* the final assertion and the return; mbr1 is mbr[0..3] as assigned from
\* the envelope.
StoreResult(mbr1, srid1, dbug) ==
  LET nan1 == isnan(mbr1[1])
      mbr2 == IF nan1
              THEN <<DblLowest, DblMax, DblLowest, DblMax>>
              ELSE mbr1
  IN IF dbug /\ nan1 /\ ~(isnan(mbr1[2]) /\ isnan(mbr1[3]) /\ isnan(mbr1[4]))
     THEN [outcome |-> "aborted", value |-> 0, mbr |-> mbr1, srid |-> srid1]
     ELSE [outcome |-> IF dbug /\ ~(DLe(mbr2[1], mbr2[2]) /\ DLe(mbr2[3], mbr2[4]))
                       THEN "aborted" ELSE "returned",
           value |-> 0, mbr |-> mbr2, srid |-> srid1]

\* get_mbr_from_store writing the full domain to mbr before it tests the
\* parsed geometry
get_mbr_from_store_earlywrite(srs, st, mbr, want_srid, srid, dbug, fault) ==
  IF dbug /\ ~(srs = "none" \/ SrsId(srs) = st.srid)
  THEN [outcome |-> "aborted", value |-> 0, mbr |-> mbr, srid |-> srid]
  ELSE LET srid1 == IF want_srid THEN st.srid ELSE srid
       IN IF fault
          THEN [outcome |-> IF dbug THEN "aborted" ELSE "returned",
                value |-> -1, mbr |-> mbr, srid |-> srid1]
          ELSE IF parse_wkb(srs, st) = "null"
          THEN [outcome |-> "returned", value |-> -1,
                mbr |-> <<DblLowest, DblMax, DblLowest, DblMax>>,
                srid |-> srid1]
          ELSE StoreResult(StoreMbr(srs, box_envelope(srs, st)), srid1, dbug)

\* value: the status returned; mbr, srid: mbr[0..3] and *srid when the
\* call ends.  want_srid: srid != nullptr.
get_mbr_from_store(srs, st, mbr, want_srid, srid, dbug, fault) ==
  IF dbug /\ ~(srs = "none" \/ SrsId(srs) = st.srid)
  THEN [outcome |-> "aborted", value |-> 0, mbr |-> mbr, srid |-> srid]
  ELSE LET srid1 == IF want_srid THEN st.srid ELSE srid
       IN IF fault
          THEN [outcome |-> IF dbug THEN "aborted" ELSE "returned",
                value |-> -1, mbr |-> mbr, srid |-> srid1]
          ELSE IF parse_wkb(srs, st) = "null"
          THEN [outcome |-> "returned", value |-> -1, mbr |-> mbr,
                srid |-> srid1]
          ELSE StoreResult(StoreMbr(srs, box_envelope(srs, st)), srid1, dbug)

(***************************************************************************)
(* State: the arguments and the outcome of the last call.                  *)
(***************************************************************************)
VARIABLES
  op,        \* the function called last, "none" before the first call
  srs,       \* the reference system handed to every call
  a, b,      \* the rtr_mbr_t arguments of the predicates
  fault,     \* the geometry library threw during the last call
  outcome,   \* "returned", or "aborted" by a failed DBUG_ASSERT
  bres,      \* the boolean a predicate returned
  ma, mb,    \* the double[4] arguments xmin, xmax, ymin, ymax
  ma0,       \* ma as it was when the last call was entered
  dres,      \* the double a call returned
  key_a, key_b, mbr_len,  \* the raw keys and their length in bytes
  ab_area,   \* *ab_area as rtree_area_increase left it
  n_read,    \* the number of bytes of each raw key the last call read
  store,     \* the record handed to get_mbr_from_store
  ires,      \* the int a call returned
  srid_out   \* *srid as get_mbr_from_store left it

vars == <<op, srs, a, b, fault, outcome, bres, ma, mb, ma0, dres,
          key_a, key_b, mbr_len, ab_area, n_read, store, ires, srid_out>>

Coords == {D(i) : i \in 0..MaxCoord}

Mbrs == {Mbr(x0, x1, y0, y1) : x0 \in Coords, x1 \in Coords,
                               y0 \in Coords, y1 \in Coords}

ZeroArr == <<D(0), D(0), D(0), D(0)>>

\* The store of the calls that take none
NoStore == [srid |-> 0, kind |-> "malformed", env |-> ZeroArr]

\* No call has been made and no result is there yet.
NoCall ==
  /\ op = "none"
  /\ fault = FALSE
  /\ outcome = "returned"
  /\ bres = FALSE
  /\ dres = D(0)
  /\ ab_area = D(0)
  /\ n_read = 0
  /\ ires = 0
  /\ srid_out = 0

Init ==
  /\ NoCall
  /\ srs \in SrsKinds
  /\ a \in Mbrs
  /\ b \in Mbrs
  /\ ma = ZeroArr /\ mb = ZeroArr /\ ma0 = ZeroArr
  /\ key_a = <<>> /\ key_b = <<>> /\ mbr_len = 0
  /\ store = NoStore

\* A predicate call on the arguments drawn at the start: the arguments
\* stay, the boolean and the outcome are those of the call.
PredicateCall(name, f, r) ==
  /\ op = "none"
  /\ op' = name
  /\ fault' = f
  /\ outcome' = r.outcome
  /\ bres' = r.value
  /\ UNCHANGED <<srs, a, b, ma, mb, ma0, dres, key_a, key_b, mbr_len,
                 ab_area, n_read, store, ires, srid_out>>

ContainCmp ==
  \E dbug \in BOOLEAN, f \in BOOLEAN :
    PredicateCall("mbr_contain_cmp", f, mbr_contain_cmp(srs, a, b, dbug, f))

EqualCmp ==
  \E dbug \in BOOLEAN, f \in BOOLEAN :
    PredicateCall("mbr_equal_cmp", f, mbr_equal_cmp(srs, a, b, dbug, f))

IntersectCmp ==
  \E dbug \in BOOLEAN :
    PredicateCall("mbr_intersect_cmp", FALSE,
                  mbr_intersect_cmp(srs, a, b, dbug))

DisjointCmp ==
  \E dbug \in BOOLEAN :
    PredicateCall("mbr_disjoint_cmp", FALSE,
                  mbr_disjoint_cmp(srs, a, b, dbug))

WithinCmp ==
  \E dbug \in BOOLEAN, f \in BOOLEAN :
    PredicateCall("mbr_within_cmp", f, mbr_within_cmp(srs, a, b, dbug, f))

Next ==
  \/ ContainCmp
  \/ EqualCmp
  \/ IntersectCmp
  \/ DisjointCmp
  \/ WithinCmp

Spec == Init /\ [][Next]_vars

(***************************************************************************)
(* The merge and area calls on double[4] arguments.                        *)
(***************************************************************************)
AreaCoords == {D(-FMax), D(FMax)} \cup {D(i) : i \in 0..MaxAreaCoord}

Arrs == {<<x0, x1, y0, y1>> : x0 \in AreaCoords, x1 \in AreaCoords,
                              y0 \in AreaCoords, y1 \in AreaCoords}

\* The double[4] arguments that satisfy xmin <= xmax and ymin <= ymax
ValidArrs == {m \in Arrs : DLe(m[1], m[2]) /\ DLe(m[3], m[4])}

\* mbr_join and mbr_join_area: any array for a, the box of an entry for b.
InitArea ==
  /\ NoCall
  /\ srs \in SrsKinds
  /\ a = Mbr(D(0), D(0), D(0), D(0))
  /\ b = Mbr(D(0), D(0), D(0), D(0))
  /\ ma \in Arrs
  /\ mb \in ValidArrs
  /\ ma0 = ma
  /\ key_a = <<>> /\ key_b = <<>> /\ mbr_len = 0
  /\ store = NoStore

\* compute_area: any array for a, no second argument.
InitComputeArea ==
  /\ NoCall
  /\ srs \in SrsKinds
  /\ a = Mbr(D(0), D(0), D(0), D(0))
  /\ b = Mbr(D(0), D(0), D(0), D(0))
  /\ ma \in Arrs
  /\ mb = ZeroArr
  /\ ma0 = ma
  /\ key_a = <<>> /\ key_b = <<>> /\ mbr_len = 0
  /\ store = NoStore

Join ==
  \E dbug \in BOOLEAN, f \in BOOLEAN :
    LET r == mbr_join(srs, ma, mb, dbug, f)
    IN /\ op = "none"
       /\ op' = "mbr_join"
       /\ fault' = f
       /\ outcome' = r.outcome
       /\ ma0' = ma
       /\ ma' = r.value
       /\ UNCHANGED <<srs, a, b, bres, mb, dres, key_a, key_b, mbr_len,
                      ab_area, n_read, store, ires, srid_out>>

JoinArea ==
  \E dbug \in BOOLEAN, f \in BOOLEAN :
    LET r == mbr_join_area(srs, ma, mb, dbug, f)
    IN /\ op = "none"
       /\ op' = "mbr_join_area"
       /\ fault' = f
       /\ outcome' = r.outcome
       /\ ma0' = ma
       /\ dres' = r.value
       /\ UNCHANGED <<srs, a, b, bres, ma, mb, key_a, key_b, mbr_len,
                      ab_area, n_read, store, ires, srid_out>>

ComputeArea ==
  \E dbug \in BOOLEAN, f \in BOOLEAN :
    LET r == compute_area(srs, ma, dbug, f)
    IN /\ op = "none"
       /\ op' = "compute_area"
       /\ fault' = f
       /\ outcome' = r.outcome
       /\ ma0' = ma
       /\ dres' = r.value
       /\ UNCHANGED <<srs, a, b, bres, ma, mb, key_a, key_b, mbr_len,
                      ab_area, n_read, store, ires, srid_out>>

NextArea ==
  \/ Join
  \/ JoinArea

SpecArea == InitArea /\ [][NextArea]_vars

NextComputeArea == ComputeArea

SpecComputeArea == InitComputeArea /\ [][NextComputeArea]_vars

(***************************************************************************)
(* Extraction from a store, and the merge and area calls beside it.        *)
(***************************************************************************)
\* Envelopes of the stored geometries: the valid rectangles over 0 and 1.
StoreEnvs ==
  {<<x0, x1, y0, y1>> : x0 \in {D(0), D(1)}, x1 \in {D(1)},
                        y0 \in {D(0), D(1)}, y1 \in {D(1)}}

Stores ==
  {[srid |-> i, kind |-> k, env |-> ZeroArr] :
     i \in 0..2, k \in {"malformed", "empty"}}
  \cup {[srid |-> i, kind |-> "geometry", env |-> e] :
          i \in 0..2, e \in StoreEnvs}

\* The second argument of mbr_join and mbr_join_area in these calls
EntryArrs == {ZeroArr, <<D(0), D(1), D(0), D(1)>>}

\* What mbr[0..3] holds before get_mbr_from_store, and the first argument
\* of the other calls
PriorArrs ==
  {<<x0, x1, y0, y1>> : x0 \in {D(0), D(2)}, x1 \in {D(0), D(2)},
                        y0 \in {D(0), D(2)}, y1 \in {D(0), D(2)}}

InitStore ==
  /\ NoCall
  /\ srs \in SrsKinds
  /\ a = Mbr(D(0), D(0), D(0), D(0))
  /\ b = Mbr(D(0), D(0), D(0), D(0))
  /\ ma \in PriorArrs
  /\ mb \in EntryArrs
  /\ ma0 = ma
  /\ key_a = <<>> /\ key_b = <<>> /\ mbr_len = 0
  /\ store \in Stores

GetMbrFromStore ==
  \E dbug \in BOOLEAN, f \in BOOLEAN, want_srid \in BOOLEAN :
    LET r == get_mbr_from_store(srs, store, ma, want_srid, srid_out, dbug, f)
    IN /\ op = "none"
       /\ op' = "get_mbr_from_store"
       /\ fault' = f
       /\ outcome' = r.outcome
       /\ ires' = r.value
       /\ ma0' = ma
       /\ ma' = r.mbr
       /\ srid_out' = r.srid
       /\ UNCHANGED <<srs, a, b, bres, mb, dres, key_a, key_b, mbr_len,
                      ab_area, n_read, store>>

NextStore ==
  \/ GetMbrFromStore
  \/ Join
  \/ JoinArea
  \/ ComputeArea

SpecStore == InitStore /\ [][NextStore]_vars

(***************************************************************************)
(* The raw-key calls.                                                      *)
(***************************************************************************)
\* Coordinates of the raw keys: 0 and 1 on every dimension, and on the
\* first dimension also half the weight of a zero span.
RawCoords(i) ==
  IF i = 1 THEN {D(0), MkDouble(1, 2000), D(1)} ELSE {D(0), D(1)}

\* The keys of n (min,max) pairs
RECURSIVE RawKeys(_)
RawKeys(n) ==
  IF n = 0 THEN {<<>>}
  ELSE {k \o <<lo, hi>> : k \in RawKeys(n - 1),
                          lo \in RawCoords(n), hi \in RawCoords(n)}

\* Pairs of keys beside those over RawCoords: the rectangles [0,10]x[0,10]
\* and [5,15]x[5,15]; a point and a segment as long as the weight of a
\* zero span; a pair whose products are equal after the second dimension
\* although the second key is the larger there.
ExampleKeys ==
  {<<(<<D(0), D(10), D(0), D(10)>>), (<<D(5), D(15), D(5), D(15)>>)>>,
   <<(<<D(0), D(0)>>), (<<D(0), MkDouble(1, 1000)>>)>>,
   <<(<<D(0), D(0), D(0), D(1)>>), (<<D(0), MkDouble(1, 2000), D(0), D(2)>>)>>}

\* Two keys of the same number of pairs and their length in bytes.
InitRaw ==
  /\ NoCall
  /\ srs \in {"none"}
  /\ a = Mbr(D(0), D(0), D(0), D(0))
  /\ b = Mbr(D(0), D(0), D(0), D(0))
  /\ ma = ZeroArr /\ mb = ZeroArr /\ ma0 = ZeroArr
  /\ store = NoStore
  /\ \/ \E n \in 0..MaxDims :
          /\ key_a \in RawKeys(n)
          /\ key_b \in RawKeys(n)
          /\ mbr_len = n * keyseg_len
     \/ \E e \in ExampleKeys :
          /\ key_a = e[1]
          /\ key_b = e[2]
          /\ mbr_len = (Len(e[1]) \div 2) * keyseg_len

\* The lengths a caller can pass with buffers of n pairs: the length of
\* the buffers, and lengths that end inside their last pair.
RawLens(n) == {l \in {n * keyseg_len - r : r \in {0, 1, 8, 15}} : l >= 0}

\* Two buffers of n pairs each and a length that need not be a multiple of
\* keyseg_len.
InitRawLen ==
  /\ NoCall
  /\ srs \in {"none"}
  /\ a = Mbr(D(0), D(0), D(0), D(0))
  /\ b = Mbr(D(0), D(0), D(0), D(0))
  /\ ma = ZeroArr /\ mb = ZeroArr /\ ma0 = ZeroArr
  /\ store = NoStore
  /\ \E n \in 0..MaxDims :
       /\ key_a \in RawKeys(n)
       /\ key_b \in RawKeys(n)
       /\ mbr_len \in RawLens(n)

AreaIncrease ==
  LET r == rtree_area_increase(key_a, key_b, mbr_len)
  IN /\ op = "none"
     /\ op' = "rtree_area_increase"
     /\ dres' = r.value
     /\ ab_area' = r.ab_area
     /\ n_read' = r.pos * 8
     /\ UNCHANGED <<srs, a, b, fault, outcome, bres, ma, mb, ma0,
                    key_a, key_b, mbr_len, store, ires, srid_out>>

AreaOverlapping ==
  LET r == rtree_area_overlapping(key_a, key_b, mbr_len)
  IN /\ op = "none"
     /\ op' = "rtree_area_overlapping"
     /\ dres' = r.value
     /\ n_read' = r.pos * 8
     /\ UNCHANGED <<srs, a, b, fault, outcome, bres, ma, mb, ma0,
                    key_a, key_b, mbr_len, ab_area, store, ires, srid_out>>

NextRaw ==
  \/ AreaIncrease
  \/ AreaOverlapping

SpecRaw == InitRaw /\ [][NextRaw]_vars

NextRawLen ==
  \/ AreaIncrease
  \/ AreaOverlapping

SpecRawLen == InitRawLen /\ [][NextRawLen]_vars

(***************************************************************************)
(* Properties of the predicates, checked under Spec.                       *)
(***************************************************************************)
Planar == srs = "none" \/ srs = "cartesian"

\* The last call ran to its return statement and nothing threw in it.
Completed(name) == op = name /\ outcome = "returned" /\ ~fault

\* a and b satisfy xmin <= xmax and ymin <= ymax (integer coordinates).
ValidInt(m) == m.xmin.n <= m.xmax.n /\ m.ymin.n <= m.ymax.n

IntMin(x, y) == IF x.n <= y.n THEN x.n ELSE y.n
IntMax(x, y) == IF x.n >= y.n THEN x.n ELSE y.n

\* m with min and max swapped per axis where needed is covered by the
\* same of o.
NormCovered(m, o) ==
  /\ IntMin(o.xmin, o.xmax) <= IntMin(m.xmin, m.xmax)
  /\ IntMax(m.xmin, m.xmax) <= IntMax(o.xmin, o.xmax)
  /\ IntMin(o.ymin, o.ymax) <= IntMin(m.ymin, m.ymax)
  /\ IntMax(m.ymin, m.ymax) <= IntMax(o.ymin, o.ymax)

ReversedBoth(m) == m.xmin.n > m.xmax.n /\ m.ymin.n > m.ymax.n

\* m with min and max exchanged on both axes
Swapped(m) == Mbr(m.xmax, m.xmin, m.ymax, m.ymin)

\* C1: whatever the rectangles and the reference system, a call of
\* mbr_intersect_cmp that returns returns true and a call of
\* mbr_disjoint_cmp that returns returns false.
C1_IntersectAlwaysTrue ==
  /\ (op = "mbr_intersect_cmp" /\ outcome = "returned" => bres = TRUE)
  /\ (op = "mbr_disjoint_cmp" /\ outcome = "returned" => bres = FALSE)

\* C1 witness: disjoint was asked of two valid rectangles that lie apart on
\* the x axis, under a geographic reference system, and answered false.
C1_Witness ==
  /\ op = "mbr_disjoint_cmp" /\ outcome = "returned"
  /\ srs = "geographic"
  /\ ValidInt(a) /\ ValidInt(b)
  /\ a.xmax.n < b.xmin.n
  /\ bres = FALSE

\* C2: under the planar model mbr_within_cmp returns the negation of
\* "normalized a is covered by normalized b" when a is reversed on both
\* axes and differs from b in some coordinate, and "normalized a is covered
\* by normalized b" itself in every other case.
C2_WithinPlanar ==
  Completed("mbr_within_cmp") /\ Planar =>
    bres = (IF ReversedBoth(a) /\ a # b
            THEN ~NormCovered(a, b)
            ELSE NormCovered(a, b))

\* C2 witness: a reversed on both axes, different from b, its normalized
\* box covered by that of b, and the call answered false.
C2_Witness ==
  /\ Completed("mbr_within_cmp") /\ Planar
  /\ ReversedBoth(a) /\ a # b
  /\ NormCovered(a, b)
  /\ bres = FALSE

\* C2 witness of the exemption: a reversed on both axes and equal to b.
C2_WitnessSame ==
  /\ Completed("mbr_within_cmp") /\ Planar
  /\ ReversedBoth(a) /\ a = b
  /\ bres = TRUE

\* C3 as stated: for a valid b and an a that is a proper rectangle with
\* min and max exchanged on both axes, within(a, b) is the boolean that
\* within gives for the rectangle in forward order, unless a equals b.
C3_Original ==
  Completed("mbr_within_cmp") /\ ReversedBoth(a) /\ ValidInt(b) /\ a # b =>
    bres = mbr_within_cmp(srs, Swapped(a), b, FALSE, FALSE).value

\* C3 amended: for a valid b and an a that is a proper rectangle with min
\* and max exchanged on both axes, within(a, b) is the negation of the
\* boolean that within gives for the rectangle in forward order; a never
\* equals a valid b, so the inversion always applies.
C3_WithinSwappedNegates ==
  Completed("mbr_within_cmp") /\ ReversedBoth(a) /\ ValidInt(b) =>
    /\ a # b
    /\ bres = ~mbr_within_cmp(srs, Swapped(a), b, FALSE, FALSE).value

\* C3 witness: the forward rectangle lies within b, the swapped one was
\* passed and the call answered false.
C3_Witness ==
  /\ Completed("mbr_within_cmp") /\ ReversedBoth(a) /\ ValidInt(b)
  /\ NormCovered(a, b)
  /\ bres = FALSE

\* C4: for valid rectangles under the planar model mbr_contain_cmp returns
\* true exactly when a.xmin <= b.xmin, b.xmax <= a.xmax, a.ymin <= b.ymin
\* and b.ymax <= a.ymax.
C4_ContainPlanar ==
  Completed("mbr_contain_cmp") /\ Planar /\ ValidInt(a) /\ ValidInt(b) =>
    bres = (/\ a.xmin.n <= b.xmin.n
            /\ b.xmax.n <= a.xmax.n
            /\ a.ymin.n <= b.ymin.n
            /\ b.ymax.n <= a.ymax.n)

\* C4 witness: b lies strictly inside a on the x axis and the call answered
\* true.
C4_Witness ==
  /\ Completed("mbr_contain_cmp") /\ Planar /\ ValidInt(a) /\ ValidInt(b)
  /\ a.xmin.n < b.xmin.n /\ b.xmax.n < a.xmax.n
  /\ bres = TRUE

C5_WitnessDiffer ==
  /\ Completed("mbr_equal_cmp") /\ Planar /\ ValidInt(a) /\ ValidInt(b)
  /\ NormCovered(a, b) /\ a # b
  /\ bres = FALSE

(***************************************************************************)
(* Properties of the merge and area calls, checked under SpecArea and      *)
(* SpecComputeArea.  The coordinates drawn there are integers.             *)
(***************************************************************************)
ValidArrInt(m) == m[1].n <= m[2].n /\ m[3].n <= m[4].n

NumMin(i, j) == IF i <= j THEN i ELSE j
NumMax(i, j) == IF i >= j THEN i ELSE j

\* The smallest rectangle covering the valid rectangles m and o, as the
\* array xmin, xmax, ymin, ymax.
Envelope(m, o) ==
  <<D(NumMin(m[1].n, o[1].n)), D(NumMax(m[2].n, o[2].n)),
    D(NumMin(m[3].n, o[3].n)), D(NumMax(m[4].n, o[4].n))>>

\* C6: under the planar model mbr_join on valid rectangles leaves in a the
\* array (min of the xmin, max of the xmax, min of the ymin, max of the
\* ymax), in that order, and leaves b as it was.
C6_JoinPlanar ==
  [][(/\ op' = "mbr_join" /\ outcome' = "returned" /\ ~fault'
      /\ Planar /\ ValidArrInt(ma) /\ ValidArrInt(mb))
     => (ma' = Envelope(ma, mb) /\ mb' = mb)]_vars

\* C6 witness: a join of two valid rectangles, neither covering the other,
\* that took xmin and ymax from b and kept xmax and ymin of a.
C6_Witness ==
  /\ Completed("mbr_join") /\ Planar
  /\ ValidArrInt(ma0) /\ ValidArrInt(mb)
  /\ mb[1].n < ma0[1].n /\ mb[2].n < ma0[2].n
  /\ ma0[3].n < mb[3].n /\ ma0[4].n < mb[4].n
  /\ ma = <<mb[1], ma0[2], ma0[3], mb[4]>>

\* C7: for valid rectangles the array that mbr_join(a, b) leaves in a is
\* the array that mbr_join(b, a) leaves in its first argument.
C7_JoinCommutes ==
  Completed("mbr_join") /\ ValidArrInt(ma0) /\ ValidArrInt(mb) =>
    ma = mbr_join(srs, mb, ma0, FALSE, FALSE).value

\* C7 witness: a join of two valid rectangles that differ on every
\* coordinate, neither covering the other.
C7_Witness ==
  /\ Completed("mbr_join")
  /\ ValidArrInt(ma0) /\ ValidArrInt(mb)
  /\ ma0[1].n < mb[1].n /\ ma0[2].n < mb[2].n
  /\ mb[3].n < ma0[3].n /\ mb[4].n < ma0[4].n
  /\ ma # ma0 /\ ma # mb

\* The spans of the rectangle compute_area was called on
Width == ma0[2].n - ma0[1].n
Height == ma0[4].n - ma0[3].n

\* C8 as stated: for a planar rectangle with finite coordinates
\* compute_area returns the number (x1-x0)*(y1-y0), and so 0 for a
\* rectangle of zero width or height.
C8_Original ==
  Completed("compute_area") /\ Planar =>
    dres = [k |-> "fin", n |-> Width * Height, d |-> 1]

\* C8 amended: for a planar rectangle with finite coordinates compute_area
\* returns the number (x1-x0)*(y1-y0) when the two spans and their product
\* are within the range of a double, and so 0 for a rectangle of zero width
\* or height whose other span is in range; when a span or the product is
\* out of range it returns NaN for a rectangle of zero width or height and
\* an infinity with the sign of the product otherwise.
C8_AreaPlanar ==
  Completed("compute_area") /\ Planar =>
    dres = (CASE /\ Abs(Width) <= FMax
                 /\ Abs(Height) <= FMax
                 /\ Abs(Width * Height) <= FMax ->
                   [k |-> "fin", n |-> Width * Height, d |-> 1]
              [] Width = 0 \/ Height = 0 -> NaN
              [] Width * Height > 0 -> PInf
              [] OTHER -> NInf)

\* C8 witness: the area of a rectangle with nonzero spans whose product is
\* in range.
C8_Witness ==
  /\ Completed("compute_area") /\ Planar
  /\ Width # 0 /\ Height # 0 /\ Width # Height
  /\ isfinite(dres) /\ dres.n = Width * Height

\* C9: mbr_join_area returns what compute_area returns for the rectangle
\* mbr_join leaves in a when that is finite and the largest finite double
\* when that is NaN or an infinity, so it never returns a non-finite value;
\* a is as it was on entry.
C9_JoinArea ==
  Completed("mbr_join_area") =>
    LET joined == mbr_join(srs, ma0, mb, FALSE, FALSE).value
        area == compute_area(srs, joined, FALSE, FALSE).value
    IN /\ dres = (IF isfinite(area) THEN area ELSE DblMax)
       /\ isfinite(dres)
       /\ ma = ma0

\* C9 witness: the joined rectangle has zero width and a height out of
\* range, its area is NaN and the largest finite double was returned.
C9_Witness ==
  /\ Completed("mbr_join_area") /\ Planar
  /\ isnan(compute_area(srs, mbr_join(srs, ma0, mb, FALSE, FALSE).value,
                        FALSE, FALSE).value)
  /\ dres = DblMax

\* C15: a call of mbr_contain_cmp, mbr_equal_cmp or mbr_within_cmp in
\* which the geometry computation throws ends inside the call, and when
\* it returns it returns false, also for a within whose first rectangle
\* is reversed on both axes and differs from the second.
C15_FaultFalse ==
  /\ op \in {"mbr_contain_cmp", "mbr_equal_cmp", "mbr_within_cmp"}
  /\ fault
  => /\ outcome \in {"returned", "aborted"}
     /\ outcome = "returned" => bres = FALSE

\* A faulting within to which the inversion applies
C15_Witness ==
  /\ op = "mbr_within_cmp"
  /\ fault
  /\ outcome = "returned"
  /\ ReversedBoth(a)
  /\ a # b
  /\ bres = FALSE

\* C19: for valid a and b the condition mbr_intersect_cmp asserts holds and
\* the call returns, whether the rectangles overlap or not.
C19_AssertionHolds ==
  op = "mbr_intersect_cmp" /\ ValidInt(a) /\ ValidInt(b) =>
    IntersectAssertion(a, b) /\ outcome = "returned"

\* Two valid rectangles apart on the x axis
C19_Witness ==
  /\ op = "mbr_intersect_cmp"
  /\ ValidInt(a) /\ ValidInt(b)
  /\ b.xmin.n > a.xmax.n
  /\ outcome = "returned"
  /\ bres = TRUE

C20_WitnessEqual ==
  /\ Completed("mbr_equal_cmp")
  /\ ValidInt(a) /\ ValidInt(b)
  /\ mbr_contain_cmp(srs, b, a, FALSE, FALSE).value
  /\ bres = FALSE

(***************************************************************************)
(* Properties of get_mbr_from_store and of the calls in which the geometry *)
(* computation throws, checked under SpecStore.                            *)
(***************************************************************************)
FullDomain == <<DblLowest, DblMax, DblLowest, DblMax>>

\* C13: when the WKB of the store does not parse, get_mbr_from_store
\* writes none of mbr[0..3] and returns -1; it returns 0 only when a
\* geometry was parsed, nothing threw, and mbr holds its envelope (the
\* full domain for an empty geometry).
C13_ParseFailure ==
  op = "get_mbr_from_store" =>
    /\ store.kind = "malformed" =>
         /\ ma = ma0
         /\ outcome = "returned" => ires = -1
    /\ outcome = "returned" /\ ires = 0 =>
         /\ store.kind # "malformed"
         /\ ~fault
         /\ ma = IF store.kind = "empty" THEN FullDomain ELSE store.env

\* A store that does not parse, with an array that held something else
\* than the full domain
C13_Witness ==
  /\ op = "get_mbr_from_store"
  /\ store.kind = "malformed"
  /\ ~fault
  /\ outcome = "returned"
  /\ ires = -1
  /\ ma = ma0
  /\ ma0 # FullDomain

\* A store that parses: status 0 and the envelope in the array
C13_WitnessParsed ==
  /\ op = "get_mbr_from_store"
  /\ store.kind = "geometry"
  /\ srs = "geographic"
  /\ outcome = "returned"
  /\ ires = 0
  /\ ma = store.env
  /\ ma # ma0

\* C14: when get_mbr_from_store returns 0, none of mbr[0..3] is NaN,
\* mbr[0] <= mbr[1] and mbr[2] <= mbr[3]; for an empty geometry it returns
\* 0 with (lowest, max, lowest, max) in mbr.
C14_NoNaN ==
  op = "get_mbr_from_store" /\ outcome = "returned" =>
    /\ ires = 0 =>
         /\ \A i \in 1..4 : ~isnan(ma[i])
         /\ DLe(ma[1], ma[2])
         /\ DLe(ma[3], ma[4])
    /\ store.kind = "empty" /\ ~fault =>
         /\ ires = 0
         /\ ma = FullDomain

\* An empty geometry
C14_Witness ==
  /\ op = "get_mbr_from_store"
  /\ store.kind = "empty"
  /\ outcome = "returned"
  /\ ires = 0
  /\ ma = <<DblLowest, DblMax, DblLowest, DblMax>>
  /\ ma0 # ma

\* C16: a call of mbr_join, mbr_join_area, compute_area or
\* get_mbr_from_store in which the geometry computation throws ends
\* inside the call; mbr_join leaves a[0..3] as they were, and when they
\* return mbr_join_area and compute_area return 0 and get_mbr_from_store
\* returns -1.
C16_FaultDefaults ==
  fault =>
    /\ outcome \in {"returned", "aborted"}
    /\ op = "mbr_join" => ma = ma0
    /\ op = "mbr_join_area" /\ outcome = "returned" => dres = D(0)
    /\ op = "compute_area" /\ outcome = "returned" => dres = D(0)
    /\ op = "get_mbr_from_store" /\ outcome = "returned" => ires = -1

\* A faulting mbr_join_area of two arrays whose union has an area
C16_Witness ==
  /\ op = "mbr_join_area"
  /\ fault
  /\ outcome = "returned"
  /\ dres = D(0)
  /\ ~DEq(mbr_join_area(srs, ma, mb, FALSE, FALSE).value, D(0))

\* A faulting mbr_join that would have grown a
C16_WitnessJoin ==
  /\ op = "mbr_join"
  /\ fault
  /\ outcome = "returned"
  /\ ma = ma0
  /\ mbr_join(srs, ma0, mb, FALSE, FALSE).value # ma0

\* A faulting get_mbr_from_store of a store that parses
C16_WitnessStore ==
  /\ op = "get_mbr_from_store"
  /\ fault
  /\ store.kind = "geometry"
  /\ outcome = "returned"
  /\ ires = -1
  /\ ma = ma0

(***************************************************************************)
(* Properties of the raw-key calls, checked under SpecRaw.                 *)
(***************************************************************************)
\* The pairs a key of mbr_len bytes holds
Dims == 1..(mbr_len \div keyseg_len)

\* amax - amin is not zero on any dimension of key_a.
NoZeroSpan == \A i \in Dims : key_a[2 * i] # key_a[2 * i - 1]

\* C10 as stated: rtree_area_increase on two identical keys whose span is
\* not zero on any dimension returns 0.
C10_SameKeyZero ==
  op = "rtree_area_increase" /\ key_a = key_b /\ NoZeroSpan =>
    dres = D(0)

\* The bounds of key_a and key_b on dimension i
AMin(i) == key_a[2 * i - 1]
AMax(i) == key_a[2 * i]
BMin(i) == key_b[2 * i - 1]
BMax(i) == key_b[2 * i]

\* A span as it enters a product: 0.001 in place of zero.
Weighted(x) == IF DEq(x, D(0)) THEN MkDouble(1, 1000) ELSE x

UnionSpan(i) == DSub(StdMax(AMax(i), BMax(i)), StdMin(AMin(i), BMin(i)))
ASpan(i) == DSub(AMax(i), AMin(i))

\* unionArea and aArea after dimensions 1..n
RECURSIVE UnionProd(_)
UnionProd(n) ==
  IF n = 0 THEN D(1) ELSE DMul(UnionProd(n - 1), Weighted(UnionSpan(n)))

RECURSIVE AProd(_)
AProd(n) == IF n = 0 THEN D(1) ELSE DMul(AProd(n - 1), Weighted(ASpan(n)))

\* The factor of the compensation accumulator on dimension i
Factor(i) ==
  IF DLt(BMin(i), AMin(i)) \/ DGt(BMax(i), AMax(i))
  THEN DAdd(DSub(StdMax(AMax(i), BMax(i)), AMax(i)),
            DSub(AMin(i), StdMin(AMin(i), BMin(i))))
  ELSE ASpan(i)

\* The compensation accumulator after dimensions 1..n
RECURSIVE Comp(_)
Comp(n) ==
  IF n = 0 THEN D(1)
  ELSE IF DEq(UnionProd(n), AProd(n))
       THEN DMul(Comp(n - 1), Factor(n))
       ELSE Comp(n - 1)

\* C11: rtree_area_increase stores in *ab_area the product of the union
\* spans of all dimensions, a zero span counted as 0.001; it returns the
\* compensation accumulator when that product equals the product of the
\* spans of the first key and the accumulator is not 1.0, and the
\* difference of the two products in every other case.
C11_IncreaseResult ==
  op = "rtree_area_increase" =>
    LET n == mbr_len \div keyseg_len
    IN /\ ab_area = UnionProd(n)
       /\ dres = IF DEq(UnionProd(n), AProd(n)) /\ ~DEq(Comp(n), D(1))
                 THEN Comp(n)
                 ELSE DSub(UnionProd(n), AProd(n))

\* [0,10]x[0,10] against [5,15]x[5,15]: 225 stored, 125 returned.
C11_Witness ==
  /\ op = "rtree_area_increase"
  /\ key_a = <<D(0), D(10), D(0), D(10)>>
  /\ key_b = <<D(5), D(15), D(5), D(15)>>
  /\ ab_area = D(225)
  /\ dres = D(125)

\* The keys are disjoint on dimension i: the larger minimum is above the
\* smaller maximum.
DisjointOn(i) ==
  DGt(StdMax(AMin(i), BMin(i)), StdMin(AMax(i), BMax(i)))

\* The interval of key_a on dimension i (amin <= amax) lies in that of
\* key_b.
ContainedOn(i) ==
  DLe(AMin(i), AMax(i)) /\ DLe(BMin(i), AMin(i)) /\ DLe(AMax(i), BMax(i))

OverlapSpan(i) == DSub(StdMin(AMax(i), BMax(i)), StdMax(AMin(i), BMin(i)))

RECURSIVE OverlapProd(_)
OverlapProd(n) ==
  IF n = 0 THEN D(1) ELSE DMul(OverlapProd(n - 1), OverlapSpan(n))

\* The product of the spans of key_a, a zero span counted as zero
RECURSIVE ASpanProd(_)
ASpanProd(n) == IF n = 0 THEN D(1) ELSE DMul(ASpanProd(n - 1), ASpan(n))

\* C12: rtree_area_overlapping returns 0 when the keys are disjoint on some
\* dimension, whatever the other dimensions; the product of the spans of
\* the first key when its interval lies in that of the second key on every
\* dimension; and otherwise the product over the dimensions of
\* min(amax,bmax) - max(amin,bmin).
C12_OverlapResult ==
  op = "rtree_area_overlapping" =>
    LET n == mbr_len \div keyseg_len
    IN /\ (\E i \in Dims : DisjointOn(i)) => dres = D(0)
       /\ (\A i \in Dims : ContainedOn(i)) => dres = ASpanProd(n)
       /\ ~(\E i \in Dims : DisjointOn(i)) => dres = OverlapProd(n)

\* Disjoint on the second dimension only
C12_Witness ==
  /\ op = "rtree_area_overlapping"
  /\ mbr_len = 2 * keyseg_len
  /\ ~DisjointOn(1)
  /\ ~DEq(OverlapSpan(1), D(0))
  /\ DisjointOn(2)
  /\ dres = D(0)

\* [0,10]x[0,10] against [5,15]x[5,15]: the overlap [5,10]x[5,10] of area 25
C12_WitnessExample ==
  /\ op = "rtree_area_overlapping"
  /\ key_a = <<D(0), D(10), D(0), D(10)>>
  /\ key_b = <<D(5), D(15), D(5), D(15)>>
  /\ dres = D(25)

\* The first key inside the second on both dimensions, with spans 1/2000
\* and 1
C12_WitnessContained ==
  /\ op = "rtree_area_overlapping"
  /\ mbr_len = 2 * keyseg_len
  /\ \A i \in Dims : ContainedOn(i)
  /\ key_a # key_b
  /\ dres = MkDouble(1, 2000)

\* The running products and the accumulator of rtree_area_increase after
\* its first i passes
Running(i) ==
  AreaIncreaseLoop(key_a, key_b, i * keyseg_len, 0, D(1), D(1), D(1))

\* C17: data_round starts at 1.0; on a dimension after which loc_ab_area
\* equals a_area it is multiplied by (max(amax,bmax) - amax) + (amin -
\* min(amin,bmin)) when bmin < amin or bmax > amax and by amax - amin
\* otherwise; on a dimension after which the two differ it keeps its value.
C17_Accumulator ==
  op = "rtree_area_increase" =>
    /\ Running(0).data_round = D(1)
    /\ \A i \in Dims :
         DEq(Running(i).data_round,
             IF DEq(Running(i).loc_ab_area, Running(i).a_area)
             THEN DMul(Running(i - 1).data_round, Factor(i))
             ELSE Running(i - 1).data_round)

\* After the second dimension the products are equal (1/1000 both), the
\* second key is the larger there, and the accumulator is multiplied by
\* (2 - 1) + (0 - 0) = 1, not by the span 2 of the union.
C17_Witness ==
  /\ op = "rtree_area_increase"
  /\ key_a = <<D(0), D(0), D(0), D(1)>>
  /\ key_b = <<D(0), MkDouble(1, 2000), D(0), D(2)>>
  /\ ~DEq(Running(1).loc_ab_area, Running(1).a_area)
  /\ DEq(Running(2).loc_ab_area, Running(2).a_area)
  /\ DGt(BMax(2), AMax(2))
  /\ Running(2).data_round = D(1)

\* The accumulator multiplied on a dimension where the second key is the
\* larger: a point against a segment of length 0.001
C17_WitnessMultiplied ==
  /\ op = "rtree_area_increase"
  /\ key_a = <<D(0), D(0)>>
  /\ key_b = <<D(0), MkDouble(1, 1000)>>
  /\ DEq(Running(1).loc_ab_area, Running(1).a_area)
  /\ Running(1).data_round = MkDouble(1, 1000)
  /\ dres = MkDouble(1, 1000)

\* Both keys have min <= max on every dimension.
WellFormedKeys ==
  \A i \in Dims : DLe(AMin(i), AMax(i)) /\ DLe(BMin(i), BMax(i))

\* C21 as stated: for well-formed keys, spans below 0.001 included,
\* rtree_area_increase returns a value >= 0 and stores in *ab_area a value
\* >= the product of the spans of the first key (a zero span counted as
\* 0.001).
C21_NonNegativeIncrease ==
  op = "rtree_area_increase" /\ WellFormedKeys =>
    /\ DGe(dres, D(0))
    /\ DGe(ab_area, AProd(mbr_len \div keyseg_len))

(***************************************************************************)
(* The raw-key calls and the length they are given, checked under          *)
(* SpecRawLen.                                                             *)
(***************************************************************************)
\* What the calls do for a length L: the pairs they pass over are at most
\* L / 16 (all L / 16 of them in rtree_area_increase), no byte at offset L
\* or above is read, and for L = 0 rtree_area_increase returns 0 with 1 in
\* *ab_area and rtree_area_overlapping returns 1.
LengthRespected ==
  /\ op = "rtree_area_increase" =>
       /\ n_read = (mbr_len \div keyseg_len) * keyseg_len
       /\ n_read <= mbr_len
       /\ mbr_len = 0 => dres = D(0) /\ ab_area = D(1)
  /\ op = "rtree_area_overlapping" =>
       /\ n_read <= (mbr_len \div keyseg_len) * keyseg_len
       /\ n_read <= mbr_len
       /\ mbr_len = 0 => dres = D(1)

\* C18 as stated: for every length L >= 0 the calls take the keys as L / 16
\* pairs and read no byte at offset L or above.
C18_Original == LengthRespected

\* C18: for every length L >= 0 that is a multiple of 16 the calls take the
\* keys as L / 16 pairs and read no byte at offset L or above; for L = 0
\* rtree_area_increase returns 0 with 1 in *ab_area and
\* rtree_area_overlapping returns 1.
C18_MultipleOf16 == mbr_len % keyseg_len = 0 => LengthRespected

\* A call with two pairs that reads all 32 bytes of each key
C18_Witness ==
  /\ op = "rtree_area_increase"
  /\ mbr_len = 2 * keyseg_len
  /\ n_read = mbr_len

\* A call with L = 0
C18_WitnessEmpty ==
  /\ op = "rtree_area_increase"
  /\ mbr_len = 0
  /\ n_read = 0
  /\ dres = D(0)
  /\ ab_area = D(1)

====
